---- MODULE Spec2Model ----
(***************************************************************************)
(* Model of the concentrated-liquidity math of src/uniswap_math.py:        *)
(* the liquidity calculator (calc_liquidity, calc_amount_0/1), the swap     *)
(* quoter (quote_exact_input, quote_exact_output) and the caller that owns  *)
(* the position's liquidity and the current sqrt-price and threads the      *)
(* quoted price from one call into the next.                                *)
(*                                                                          *)
(* Python's int is unbounded and its `/` is IEEE-754 double division        *)
(* (round to nearest, ties to even; 53 significant bits).  TLC's integers   *)
(* are 32 bits wide, so the fixed-point scale 2**96 and the 53-bit          *)
(* significand are scaled down together: Q96 = 2^FracBits and a float       *)
(* keeps MantDig significant bits.  As in the program, token amounts and    *)
(* the products formed from them exceed what the significand holds.         *)
(* Overflow to infinity and subnormals lie far outside the values of the    *)
(* model and are not modelled.                                              *)
(***************************************************************************)
EXTENDS Integers, Sequences, FiniteSets, TLC

\* ---------------------------------------------------------------- bounds
FracBits == 2       \* fractional bits of a sqrt-price (96 in the source)
MantDig == 3        \* significant bits of a float (53 in CPython)
MaxSqrtP == 6       \* largest sqrt-price a caller supplies or threads
MaxAmount == 5      \* largest token amount a caller supplies

RECURSIVE Pow2(_)
Pow2(k) == IF k <= 0 THEN 1 ELSE 2 * Pow2(k - 1)

Q96 == Pow2(FracBits)

Amounts == -1 .. MaxAmount
SqrtPrices == 0 .. MaxSqrtP

\* ------------------------------------------------ results of a call
Ok(v) == [kind |-> "ok", val |-> v]
Err(k) == [kind |-> k]
ZeroDivisionError == "ZeroDivisionError"
ValueError == "ValueError"

\* ------------------------------------------------ integer helpers
Abs(x) == IF x < 0 THEN -x ELSE x
Sign(x) == IF x < 0 THEN -1 ELSE 1

\* Python's n // d on ints (d # 0): the floor of the quotient.
PyFloorDiv(n, d) ==
    LET q == Abs(n) \div Abs(d)
        r == Abs(n) % Abs(d)
    IN IF Sign(n) = Sign(d) \/ n = 0 THEN q
       ELSE IF r = 0 THEN -q ELSE -(q + 1)

\* ------------------------------------------------ floats
\* A float is s * m * 2^e with m = 0 or 2^(MantDig-1) <= m < 2^MantDig.
FZero == [s |-> 1, m |-> 0, e |-> 0]

\* n/d (n > 0, d > 0) times 2^e, rounded to MantDig bits, ties to even.
RECURSIVE Norm(_, _, _)
Norm(n, d, e) ==
    IF n >= d * Pow2(MantDig) THEN Norm(n, 2 * d, e + 1)
    ELSE IF n < d * Pow2(MantDig - 1) THEN Norm(2 * n, d, e - 1)
    ELSE LET q == n \div d
             r == n % d
             up == (2 * r > d) \/ (2 * r = d /\ q % 2 = 1)
             q1 == IF up THEN q + 1 ELSE q
         IN IF q1 = Pow2(MantDig) THEN [m |-> Pow2(MantDig - 1), e |-> e + 1]
            ELSE [m |-> q1, e |-> e]

\* int / int (true division, correctly rounded); d # 0.
IntTrueDiv(n, d) ==
    IF n = 0 THEN FZero
    ELSE LET r == Norm(Abs(n), Abs(d), 0)
         IN [s |-> Sign(n) * Sign(d), m |-> r.m, e |-> r.e]

\* float(d) for an int d.
IntToFloat(d) == IntTrueDiv(d, 1)

\* float / int: the int is converted to a float first, then the quotient
\* of the two floats is rounded; d # 0.
FloatDivInt(f, d) ==
    LET g == IntToFloat(d)
    IN IF f.m = 0 THEN FZero
       ELSE LET r == Norm(f.m, g.m, 0)
            IN [s |-> f.s * g.s, m |-> r.m, e |-> r.e + f.e - g.e]

\* float * float, rounded.
FloatMul(f, g) ==
    IF f.m = 0 \/ g.m = 0 THEN FZero
    ELSE LET r == Norm(f.m * g.m, 1, 0)
         IN [s |-> f.s * g.s, m |-> r.m, e |-> r.e + f.e + g.e]

\* int(f): truncation toward zero.
FloatToInt(f) ==
    IF f.e >= 0 THEN f.s * f.m * Pow2(f.e)
    ELSE f.s * (f.m \div Pow2(-f.e))

\* f < g, exactly.
FloatLess(f, g) ==
    LET e == IF f.e < g.e THEN f.e ELSE g.e
    IN f.s * f.m * Pow2(f.e - e) < g.s * g.m * Pow2(g.e - e)

\* Python's min(f, g): the first argument unless the second is smaller.
FloatMin(f, g) == IF FloatLess(g, f) THEN g ELSE f

\* ------------------------------------------------ Fixed-Point Converter
\* price_to_tick(price) = math.floor(math.log(price, 1.0001)): math.log
\* raises ValueError for price <= 0.  No property here reads the tick, so
\* only the outcome of the call is kept, not the logarithm's value.
price_to_tick(price) ==
    IF price.m = 0 \/ price.s < 0 THEN Err(ValueError) ELSE Ok("tick")

\* ------------------------------------------------ Liquidity Calculator
Lower(pa, pb) == IF pa > pb THEN pb ELSE pa
Upper(pa, pb) == IF pa > pb THEN pa ELSE pb

\* (amount_0 * (lower * upper) / Q96) / (upper - lower): a float.
calc_liquidity_0(amount_0, sqrtP_lower, sqrtP_upper) ==
    LET lo == Lower(sqrtP_lower, sqrtP_upper)
        up == Upper(sqrtP_lower, sqrtP_upper)
    IN IF up - lo = 0 THEN Err(ZeroDivisionError)
       ELSE Ok(FloatDivInt(IntTrueDiv(amount_0 * (lo * up), Q96), up - lo))

\* amount_1 * Q96 / (upper - lower): a float.
calc_liquidity_1(amount_1, sqrtP_lower, sqrtP_upper) ==
    LET lo == Lower(sqrtP_lower, sqrtP_upper)
        up == Upper(sqrtP_lower, sqrtP_upper)
    IN IF up - lo = 0 THEN Err(ZeroDivisionError)
       ELSE Ok(IntTrueDiv(amount_1 * Q96, up - lo))

\* The slip of taking the larger of the two liquidities.
calc_liquidity_max(amount_0, amount_1, sqrtP_current, sqrtP_lower, sqrtP_upper) ==
    LET liquidity_0 == calc_liquidity_0(amount_0, sqrtP_current, sqrtP_upper)
        liquidity_1 == calc_liquidity_1(amount_1, sqrtP_current, sqrtP_lower)
    IN IF liquidity_0.kind # "ok" THEN liquidity_0
       ELSE IF liquidity_1.kind # "ok" THEN liquidity_1
       ELSE Ok(FloatToInt(IF FloatLess(liquidity_0.val, liquidity_1.val)
                          THEN liquidity_1.val ELSE liquidity_0.val))

\* int(min(liquidity_0, liquidity_1)).
calc_liquidity(amount_0, amount_1, sqrtP_current, sqrtP_lower, sqrtP_upper) ==
    LET liquidity_0 == calc_liquidity_0(amount_0, sqrtP_current, sqrtP_upper)
        liquidity_1 == calc_liquidity_1(amount_1, sqrtP_current, sqrtP_lower)
    IN IF liquidity_0.kind # "ok" THEN liquidity_0
       ELSE IF liquidity_1.kind # "ok" THEN liquidity_1
       ELSE Ok(FloatToInt(FloatMin(liquidity_0.val, liquidity_1.val)))

\* The slip of leaving the bounds as they were passed.
calc_amount_0_unswapped(liquidity, sqrtP_lower, sqrtP_upper) ==
    IF sqrtP_lower = 0 \/ sqrtP_upper = 0 THEN Err(ZeroDivisionError)
    ELSE Ok(FloatToInt(FloatDivInt(
             IntTrueDiv(liquidity * Q96 * (sqrtP_upper - sqrtP_lower), sqrtP_lower),
             sqrtP_upper)))

\* int(liquidity * Q96 * (upper - lower) / lower / upper).
calc_amount_0(liquidity, sqrtP_lower, sqrtP_upper) ==
    LET lo == Lower(sqrtP_lower, sqrtP_upper)
        up == Upper(sqrtP_lower, sqrtP_upper)
    IN IF lo = 0 \/ up = 0 THEN Err(ZeroDivisionError)
       ELSE Ok(FloatToInt(FloatDivInt(
                IntTrueDiv(liquidity * Q96 * (up - lo), lo), up)))

\* int(liquidity * (upper - lower) / Q96).
calc_amount_1(liquidity, sqrtP_lower, sqrtP_upper) ==
    LET lo == Lower(sqrtP_lower, sqrtP_upper)
        up == Upper(sqrtP_lower, sqrtP_upper)
    IN Ok(FloatToInt(IntTrueDiv(liquidity * (up - lo), Q96)))

\* ------------------------------------------------ Swap Quoter
\* The tail shared by both quotes: new_price = (new_sqrtP / Q96) ** 2,
\* new_tick = price_to_tick(new_price), then the returned tuple.
SwapQuote(new_sqrtP, amount) ==
    IF amount.kind # "ok" THEN amount
    ELSE LET root == IntTrueDiv(new_sqrtP, Q96)
             new_price == FloatMul(root, root)
             new_tick == price_to_tick(new_price)
         IN IF new_tick.kind # "ok" THEN new_tick
            ELSE Ok([new_sqrtP |-> new_sqrtP, new_price |-> new_price,
                     amount |-> amount.val])

\* (liquidity * Q96 * current_sqrtP) // (liquidity * Q96 + amount * current_sqrtP)
\* followed by calc_amount_1 over the move.
QuoteDown(amount, liquidity, current_sqrtP) ==
    LET den == liquidity * Q96 + amount * current_sqrtP
    IN IF den = 0 THEN Err(ZeroDivisionError)
       ELSE LET new_sqrtP == PyFloorDiv(liquidity * Q96 * current_sqrtP, den)
            IN SwapQuote(new_sqrtP, calc_amount_1(liquidity, new_sqrtP, current_sqrtP))

\* price_difference = (amount * Q96) // liquidity added to the current
\* price, followed by calc_amount_0 over the move.
QuoteUp(amount, liquidity, current_sqrtP) ==
    IF liquidity = 0 THEN Err(ZeroDivisionError)
    ELSE LET price_difference == PyFloorDiv(amount * Q96, liquidity)
             new_sqrtP == current_sqrtP + price_difference
         IN SwapQuote(new_sqrtP, calc_amount_0(liquidity, new_sqrtP, current_sqrtP))

\* The slip of taking the two branches the other way round.
quote_exact_input_flipped(amount_in, liquidity, current_sqrtP, zero_for_one) ==
    IF zero_for_one THEN QuoteUp(amount_in, liquidity, current_sqrtP)
    ELSE QuoteDown(amount_in, liquidity, current_sqrtP)

quote_exact_input(amount_in, liquidity, current_sqrtP, zero_for_one) ==
    IF zero_for_one THEN QuoteDown(amount_in, liquidity, current_sqrtP)
    ELSE QuoteUp(amount_in, liquidity, current_sqrtP)

quote_exact_output(amount_out, liquidity, current_sqrtP, zero_for_one) ==
    IF zero_for_one THEN QuoteUp(amount_out, liquidity, current_sqrtP)
    ELSE QuoteDown(amount_out, liquidity, current_sqrtP)

\* ------------------------------------------------ the caller
\* The engine holds no state.  The caller owns the position's liquidity and
\* the current sqrt-price: it derives the liquidity from its deposits, then
\* asks for amounts and quotes, threading each quoted price into the next
\* call (the module-level script of uniswap_math.py).  `call` is the call in
\* progress: the operation, its arguments and what it returned or raised.
VARIABLES phase, liquidity, sqrtP_current, call

vars == <<phase, liquidity, sqrtP_current, call>>

NoCall == [op |-> "none"]

Init ==
    /\ phase = "setup"
    /\ liquidity = 0
    /\ sqrtP_current \in SqrtPrices
    /\ call = NoCall

CalcLiquidity0 ==
    /\ phase = "setup" /\ call = NoCall
    /\ \E amount_0 \in Amounts, pa \in SqrtPrices, pb \in SqrtPrices :
         call' = [op |-> "calc_liquidity_0", amount |-> amount_0,
                  pa |-> pa, pb |-> pb,
                  res |-> calc_liquidity_0(amount_0, pa, pb)]
    /\ UNCHANGED <<phase, liquidity, sqrtP_current>>

CalcLiquidity1 ==
    /\ phase = "setup" /\ call = NoCall
    /\ \E amount_1 \in Amounts, pa \in SqrtPrices, pb \in SqrtPrices :
         call' = [op |-> "calc_liquidity_1", amount |-> amount_1,
                  pa |-> pa, pb |-> pb,
                  res |-> calc_liquidity_1(amount_1, pa, pb)]
    /\ UNCHANGED <<phase, liquidity, sqrtP_current>>

\* liquidity = calc_liquidity(amount_0, amount_1, sqrtP_current, lower, upper)
CalcLiquidity ==
    /\ phase = "setup" /\ call = NoCall
    /\ \E amount_0 \in Amounts, amount_1 \in Amounts,
          lower \in SqrtPrices, upper \in SqrtPrices :
         LET res == calc_liquidity(amount_0, amount_1, sqrtP_current, lower, upper)
         IN /\ call' = [op |-> "calc_liquidity", amount_0 |-> amount_0,
                        amount_1 |-> amount_1, current |-> sqrtP_current,
                        lower |-> lower, upper |-> upper, res |-> res]
            /\ IF res.kind = "ok"
               THEN liquidity' = res.val /\ phase' = "trading"
               ELSE UNCHANGED <<liquidity, phase>>
    /\ UNCHANGED sqrtP_current

CalcAmount0 ==
    /\ phase = "trading" /\ call = NoCall
    /\ \E pa \in SqrtPrices, pb \in SqrtPrices :
         call' = [op |-> "calc_amount_0", liquidity |-> liquidity,
                  pa |-> pa, pb |-> pb,
                  res |-> calc_amount_0(liquidity, pa, pb)]
    /\ UNCHANGED <<phase, liquidity, sqrtP_current>>

CalcAmount1 ==
    /\ phase = "trading" /\ call = NoCall
    /\ \E pa \in SqrtPrices, pb \in SqrtPrices :
         call' = [op |-> "calc_amount_1", liquidity |-> liquidity,
                  pa |-> pa, pb |-> pb,
                  res |-> calc_amount_1(liquidity, pa, pb)]
    /\ UNCHANGED <<phase, liquidity, sqrtP_current>>

\* The caller threads a returned price that stays in the range it explores.
Thread(res) ==
    IF res.kind = "ok" /\ res.val.new_sqrtP \in 1 .. MaxSqrtP
    THEN sqrtP_current' = res.val.new_sqrtP
    ELSE UNCHANGED sqrtP_current

QuoteExactInput ==
    /\ phase = "trading" /\ call = NoCall
    /\ \E amount_in \in Amounts, zero_for_one \in BOOLEAN :
         LET res == quote_exact_input(amount_in, liquidity, sqrtP_current, zero_for_one)
         IN /\ call' = [op |-> "quote_exact_input", amount |-> amount_in,
                        liquidity |-> liquidity, current |-> sqrtP_current,
                        zero_for_one |-> zero_for_one, res |-> res]
            /\ Thread(res)
    /\ UNCHANGED <<phase, liquidity>>

QuoteExactOutput ==
    /\ phase = "trading" /\ call = NoCall
    /\ \E amount_out \in Amounts, zero_for_one \in BOOLEAN :
         LET res == quote_exact_output(amount_out, liquidity, sqrtP_current, zero_for_one)
         IN /\ call' = [op |-> "quote_exact_output", amount |-> amount_out,
                        liquidity |-> liquidity, current |-> sqrtP_current,
                        zero_for_one |-> zero_for_one, res |-> res]
            /\ Thread(res)
    /\ UNCHANGED <<phase, liquidity>>

\* The call returns (or its exception reaches the caller).
Return ==
    /\ call # NoCall
    /\ call' = NoCall
    /\ UNCHANGED <<phase, liquidity, sqrtP_current>>

Next ==
    \/ CalcLiquidity0
    \/ CalcLiquidity1
    \/ CalcLiquidity
    \/ CalcAmount0
    \/ CalcAmount1
    \/ QuoteExactInput
    \/ QuoteExactOutput
    \/ Return

Spec == Init /\ [][Next]_vars

\* ================================================================ claims
Quoted(op) ==
    /\ call.op = op
    /\ call.liquidity > 0 /\ call.current > 0

\* C1: an exact-input quote with L > 0, P > 0 and a positive amountIn that
\* returns leaves newSqrtPriceX96 <= P when zeroForOne and >= P otherwise,
\* and so does the price the caller threads into the next call.
C1_InputDirection ==
    (Quoted("quote_exact_input") /\ call.amount > 0 /\ call.res.kind = "ok") =>
        IF call.zero_for_one
        THEN call.res.val.new_sqrtP <= call.current /\ sqrtP_current <= call.current
        ELSE call.res.val.new_sqrtP >= call.current /\ sqrtP_current >= call.current

\* C1 witness: a zeroForOne exact-input quote returned a strictly lower
\* price, which the caller has threaded.
C1_Witness ==
    /\ Quoted("quote_exact_input") /\ call.amount > 0 /\ call.res.kind = "ok"
    /\ call.zero_for_one
    /\ call.res.val.new_sqrtP < call.current
    /\ sqrtP_current = call.res.val.new_sqrtP

\* C2: an exact-output quote with L > 0, P > 0 and a positive amountOut
\* returns newSqrtP <= P when zeroForOne and newSqrtP >= P otherwise.
C2_OutputDirection ==
    (Quoted("quote_exact_output") /\ call.amount > 0 /\ call.res.kind = "ok") =>
        IF call.zero_for_one
        THEN call.res.val.new_sqrtP <= call.current
        ELSE call.res.val.new_sqrtP >= call.current

\* One unit of rounding in each of the two floored amounts, each worth at
\* most Q96 units of sqrt-price at a liquidity of one or more.
RoundingTolerance == 2 * Q96

\* C3: feeding the amountOut of an exact-input quote to quoteExactOutput
\* with the same L, P and direction gives, when that call returns, a price
\* within the rounding tolerance of the exact-input quote's price.
C3_InputOutputConsistency ==
    (Quoted("quote_exact_input") /\ call.amount > 0 /\ call.res.kind = "ok") =>
        LET back == quote_exact_output(call.res.val.amount, call.liquidity,
                                       call.current, call.zero_for_one)
        IN back.kind = "ok" =>
             Abs(back.val.new_sqrtP - call.res.val.new_sqrtP) <= RoundingTolerance

\* The position of a liquidity derivation: deposits >= 0 and bounds that
\* are sqrt-prices of ticks, 0 < lower < current < upper.
Derived ==
    /\ call.op = "calc_liquidity"
    /\ call.amount_0 >= 0 /\ call.amount_1 >= 0
    /\ 0 < call.lower
    /\ call.lower < call.current /\ call.current < call.upper
    /\ call.res.kind = "ok"

AtMost(res, amount) == res.kind = "ok" /\ res.val <= amount

OnePlusU == Pow2(MantDig) + 1
OneMinusU == Pow2(MantDig) - 1
One == Pow2(MantDig)

C5_DepositsBackLiquidity ==
    Derived =>
        /\ AtMost(calc_amount_0(call.res.val, call.current, call.upper), call.amount_0)
        /\ AtMost(calc_amount_1(call.res.val, call.lower, call.current), call.amount_1)

\* C6: each range-taking operation returns the same result with its two
\* bounds passed in the other order.
C6_CanonicalizationSymmetry ==
    /\ (call.op = "calc_liquidity_0" /\ call.pa # call.pb) =>
          call.res = calc_liquidity_0(call.amount, call.pb, call.pa)
    /\ (call.op = "calc_liquidity_1" /\ call.pa # call.pb) =>
          call.res = calc_liquidity_1(call.amount, call.pb, call.pa)
    /\ (call.op = "calc_amount_0" /\ call.pa # call.pb) =>
          call.res = calc_amount_0(call.liquidity, call.pb, call.pa)
    /\ (call.op = "calc_amount_1" /\ call.pa # call.pb) =>
          call.res = calc_amount_1(call.liquidity, call.pb, call.pa)

\* C6 witness: calc_amount_0 was called with its bounds reversed and
\* returned a positive amount.
C6_Witness ==
    /\ call.op = "calc_amount_0" /\ call.pa > call.pb
    /\ call.res.kind = "ok" /\ call.res.val > 0

\* The program defines no error types of its own: whatever exception a
\* call raises is counted as the typed failure the specification names.
Fails(res) == res.kind # "ok"

\* C7: a call of an amount derivation or a quote with liquidity <= 0 ends
\* in a (ZeroLiquidity) failure and returns no value.
C7_ZeroLiquidityRejected ==
    (/\ call.op \in {"calc_amount_0", "calc_amount_1",
                     "quote_exact_input", "quote_exact_output"}
     /\ call.liquidity <= 0) =>
        Fails(call.res)

\* C8: a range-taking operation called with equal bounds fails (with
\* InvalidRange) and returns no value.
C8_ZeroWidthRejected ==
    (/\ call.op \in {"calc_liquidity_0", "calc_liquidity_1",
                     "calc_amount_0", "calc_amount_1"}
     /\ call.pa = call.pb) =>
        Fails(call.res)

NegativeAmountCall ==
    \/ /\ call.op \in {"calc_liquidity_0", "calc_liquidity_1",
                       "quote_exact_input", "quote_exact_output"}
       /\ call.amount < 0
    \/ /\ call.op = "calc_liquidity"
       /\ (call.amount_0 < 0 \/ call.amount_1 < 0)

\* C9: a liquidity derivation or a quote called with a token amount < 0
\* fails (with NegativeAmount) and returns neither a liquidity nor a quote.
C9_NegativeAmountRejected ==
    NegativeAmountCall => Fails(call.res)

\* C10: the input amount implied by the price move of an exact-input quote
\* (amount0 over the move when zeroForOne, amount1 otherwise) is <= amountIn.
C10_InputPaysForMove ==
    (Quoted("quote_exact_input") /\ call.amount >= 0 /\ call.res.kind = "ok") =>
        IF call.zero_for_one
        THEN AtMost(calc_amount_0(call.liquidity, call.res.val.new_sqrtP, call.current),
                    call.amount)
        ELSE AtMost(calc_amount_1(call.liquidity, call.res.val.new_sqrtP, call.current),
                    call.amount)

====
